---- MODULE Spec2Model ----
(***************************************************************************)
(* Skeletal-animation editor: the GUI controller (Gui.ts, second revision  *)
(* with keyframes), the application object that owns the scene and the     *)
(* per-frame draw (App), and the skeleton (Bone, Mesh).                    *)
(*                                                                         *)
(* Numbers.  Rotations are unit quaternions drawn from the 48 quaternions  *)
(* of the binary octahedral group (all rotations of the cube, with the     *)
(* quaternion sign kept).  A quaternion is written as the primitive        *)
(* integer tuple <<w, x, y, z>> in its direction, so every component is    *)
(* -1, 0 or 1 and products stay exact.  Angles are counted in quarter      *)
(* turns, vectors are integer triples, bones lie along coordinate axes in  *)
(* bind pose.  Time is counted in units of 1/TimeDen second.               *)
(*                                                                         *)
(* Objects.  R_i fields hold references: `quats` is the store of the Quat  *)
(* objects and a bone's R_i is an index into it, so that a keyframe and a  *)
(* live bone can hold the same object.                                     *)
(*                                                                         *)
(* Events.  A handler that throws is a step that keeps the assignments it  *)
(* made before the throw and records err in `ev`.  The camera, the loader  *)
(* and the math library are outside the core: the camera's forward vector  *)
(* is an input, the calls that change the camera are recorded in `ev`.     *)
(***************************************************************************)
EXTENDS Integers, Sequences, FiniteSets, TLC

\* ----------------------------------------------------------------- bounds
MaxKeyFrames == 2
MaxEdits == 1
MaxPending == 1
MaxDT == 2
TimeDen == 2

\* ------------------------------------------------ program constants (Gui)
rotationSpeed == 1

\* NaN is a number equal to no bone index and to no hit distance.
NaN == -1000

\* An optional argument is null or holds one value.
null == <<>>

Some(x) == <<x>>

\* ------------------------------------------------------ vector arithmetic
Sgn(n) == IF n > 0 THEN 1 ELSE IF n < 0 THEN -1 ELSE 0

Vec3Zero == <<0, 0, 0>>

Vec3Sum(a, b) == <<a[1] + b[1], a[2] + b[2], a[3] + b[3]>>

Vec3Difference(a, b) == <<a[1] - b[1], a[2] - b[2], a[3] - b[3]>>

Vec3Scale(a, k) == <<a[1] * k, a[2] * k, a[3] * k>>

Vec3SquaredLength(a) == a[1] * a[1] + a[2] * a[2] + a[3] * a[3]

\* -------------------------------------------------------------- quaternions
QuatIdentity == <<1, 0, 0, 0>>

QuatNormalize(q) == <<Sgn(q[1]), Sgn(q[2]), Sgn(q[3]), Sgn(q[4])>>

QuatNegate(q) == <<-q[1], -q[2], -q[3], -q[4]>>

QuatDot(a, b) == a[1] * b[1] + a[2] * b[2] + a[3] * b[3] + a[4] * b[4]

\* Hamilton product a * b (a applied after b), renormalised.
QuatProduct(a, b) ==
    QuatNormalize(<<
        a[1] * b[1] - a[2] * b[2] - a[3] * b[3] - a[4] * b[4],
        a[1] * b[2] + a[2] * b[1] + a[3] * b[4] - a[4] * b[3],
        a[1] * b[3] - a[2] * b[4] + a[3] * b[1] + a[4] * b[2],
        a[1] * b[4] + a[2] * b[3] - a[3] * b[2] + a[4] * b[1] >>)

\* Rotation by `angle` quarter turns about the direction of `axis`.
QuatFromAxisAngle(axis, angle) ==
    LET a == <<Sgn(axis[1]), Sgn(axis[2]), Sgn(axis[3])>>
        k == angle % 4
    IN  CASE k = 0 -> QuatIdentity
          [] k = 1 -> <<1, a[1], a[2], a[3]>>
          [] k = 2 -> <<0, a[1], a[2], a[3]>>
          [] k = 3 -> <<1, -a[1], -a[2], -a[3]>>

\* The 3x3 rotation of a quaternion, as its three columns.
QuatToMat3(q) ==
    LET w == q[1]  x == q[2]  y == q[3]  z == q[4]
    IN  << <<Sgn(w*w + x*x - y*y - z*z), Sgn(2*(x*y + w*z)), Sgn(2*(x*z - w*y))>>,
           <<Sgn(2*(x*y - w*z)), Sgn(w*w - x*x + y*y - z*z), Sgn(2*(y*z + w*x))>>,
           <<Sgn(2*(x*z + w*y)), Sgn(2*(y*z - w*x)), Sgn(w*w - x*x - y*y + z*z)>> >>

\* Quat.slerpShort(q1, q2, num/TimeDen): q1 up to time 0, q2 from time 1 on,
\* between them the point of the shorter arc.  That point is a quaternion of
\* the group when the two ends are the same rotation, and at the middle of a
\* quarter-circle arc.
SlerpTarget(q1, q2) == IF QuatDot(q1, q2) < 0 THEN QuatNegate(q2) ELSE q2

SlerpDefined(q1, q2, num) ==
    \/ num <= 0
    \/ num >= TimeDen
    \/ SlerpTarget(q1, q2) = q1
    \/ /\ 2 * num = TimeDen
       /\ QuatDot(q1, q2) = 0
       /\ QuatDot(q1, q1) = QuatDot(q2, q2)

QuatSlerpShort(q1, q2, num) ==
    IF num <= 0 THEN q1
    ELSE IF num >= TimeDen THEN q2
    ELSE IF SlerpTarget(q1, q2) = q1 THEN q1
    ELSE QuatNormalize(<<q1[1] + q2[1], q1[2] + q2[2], q1[3] + q2[3], q1[4] + q2[4]>>)

\* ------------------------------------------------------- affine matrices
Mat3Identity == << <<1, 0, 0>>, <<0, 1, 0>>, <<0, 0, 1>> >>

Mat3MultiplyVec3(m, v) ==
    Vec3Sum(Vec3Sum(Vec3Scale(m[1], v[1]), Vec3Scale(m[2], v[2])), Vec3Scale(m[3], v[3]))

Mat3Product(a, b) ==
    << Mat3MultiplyVec3(a, b[1]), Mat3MultiplyVec3(a, b[2]), Mat3MultiplyVec3(a, b[3]) >>

Mat4Identity == [r |-> Mat3Identity, t |-> Vec3Zero]

Mat4Translate(m, v) == [r |-> m.r, t |-> Vec3Sum(m.t, Mat3MultiplyVec3(m.r, v))]

Mat4Product(a, b) ==
    [r |-> Mat3Product(a.r, b.r), t |-> Vec3Sum(Mat3MultiplyVec3(a.r, b.t), a.t)]

Mat4MultiplyPt3(m, v) == Vec3Sum(Mat3MultiplyVec3(m.r, v), m.t)

QuatToMat4(q) == [r |-> QuatToMat3(q), t |-> Vec3Zero]

\* ------------------------------------------------------------ the loader
\* The scene files the number keys select; each loads one mesh whose
\* skeleton is a chain of bones in bind pose (BoneLoader records).
Scenes == {1, 2}

LoaderBone(parent, children, position, endpoint) ==
    [parent |-> parent, children |-> children, position |-> position,
     endpoint |-> endpoint, rotation |-> QuatIdentity]

LoaderBones(file) ==
    IF file = 1
    THEN << LoaderBone(-1, <<2>>, <<1, 0, 0>>, <<1, 1, 0>>),
            LoaderBone(1, <<>>, <<1, 1, 0>>, <<2, 1, 0>>) >>
    ELSE << LoaderBone(-1, <<>>, <<0, 0, 1>>, <<0, 0, 2>>) >>

\* ------------------------------------------------------------------ state
VARIABLES
    scene,         \* App.scene: [file, meshes]; meshes is <<>> until the load completes
    loadedScene,   \* App.loadedScene
    pending,       \* superseded loads whose completion callback has not fired yet
    keyFrames,     \* GUI.keyFrames
    selectedBone,  \* GUI.selectedBone: a bone index or NaN
    dragging,      \* GUI.dragging
    boneDragging,  \* GUI.boneDragging
    time,          \* GUI.time, in units of 1/TimeDen second
    mode,          \* GUI.mode
    quats,         \* the Quat objects that R_i fields refer to: R_i is an index here
    edits,         \* rotations applied so far (bounds the poses explored)
    ev,            \* the last observed event: its handler, whether it threw, and
                   \* the camera call it made
    observed       \* the handlers whose events are recorded in ev

vars == <<scene, loadedScene, pending, keyFrames, selectedBone, dragging,
          boneDragging, time, mode, quats, edits, ev, observed>>

\* ---------------------------------------------------------- Bone and Mesh
\* new Bone(bone: BoneLoader): R_i is a new identity quaternion, object `ref`.
BoneFromLoader(bone, ref) ==
    [parent |-> bone.parent, children |-> bone.children,
     position |-> bone.position, endpoint |-> bone.endpoint,
     rotation |-> bone.rotation, isHighlight |-> FALSE,
     initPosition |-> bone.position, initEndpoint |-> bone.endpoint,
     T_ij |-> Mat4Identity, R_i |-> ref]

\* new Bone(bone: Bone): the vectors are copied, T_ij and R_i are the same objects.
BoneFromBone(bone) ==
    [parent |-> bone.parent, children |-> bone.children,
     position |-> bone.position, endpoint |-> bone.endpoint,
     rotation |-> bone.rotation, isHighlight |-> FALSE,
     initPosition |-> bone.initPosition, initEndpoint |-> bone.initEndpoint,
     T_ij |-> bone.T_ij, R_i |-> bone.R_i]

\* Variant of the Mesh constructor that subtracts the parent's bind position
\* from the bone's own initPosition object (translation.subtract) instead of
\* taking the difference into a new vector.
MeshBones_SubtractInPlace(loaderBones, base) ==
    LET made == [i \in 1..Len(loaderBones) |-> BoneFromLoader(loaderBones[i], base + i)]
        moved[i \in 0..Len(made)] ==
            IF i = 0 THEN made
            ELSE IF made[i].parent # -1
                 THEN [moved[i - 1] EXCEPT ![i].initPosition =
                          Vec3Difference(@, moved[i - 1][made[i].parent].initPosition)]
                 ELSE moved[i - 1]
        done == moved[Len(made)]
    IN  [i \in 1..Len(done) |->
            [done[i] EXCEPT !.T_ij = Mat4Translate(done[i].T_ij, done[i].initPosition)]]

\* new Mesh(mesh: MeshLoader), with the R_i objects allocated after `base`.
MeshBones(loaderBones, base) ==
    LET made == [i \in 1..Len(loaderBones) |-> BoneFromLoader(loaderBones[i], base + i)]
        translation(i) ==
            IF made[i].parent # -1
            THEN Vec3Difference(made[i].initPosition, made[made[i].parent].initPosition)
            ELSE made[i].initPosition
    IN  [i \in 1..Len(made) |->
            [made[i] EXCEPT !.T_ij = Mat4Translate(made[i].T_ij, translation(i))]]

\* Variant of rotateBone that multiplies the Quat object in place (as
\* R_i.multiply would) instead of replacing it.
rotateBone_InPlace(h, bones, bone, axis, angle) ==
    LET product == QuatProduct(h[bones[bone].R_i], QuatFromAxisAngle(axis, angle))
    IN  [quats |-> [h EXCEPT ![bones[bone].R_i] = product],
         bones |-> bones]

\* Bone.rotateBone on bones[bone]: R_i becomes a new object holding the
\* product; the objects in `h` are left as they are.
rotateBone(h, bones, bone, axis, angle) ==
    LET product == QuatProduct(h[bones[bone].R_i], QuatFromAxisAngle(axis, angle))
    IN  [quats |-> Append(h, product),
         bones |-> [bones EXCEPT ![bone].R_i = Len(h) + 1]]

RECURSIVE getD_i(_, _, _)
getD_i(h, bones, bone) ==
    LET curBone == bones[bone]
        local == Mat4Product(curBone.T_ij, QuatToMat4(h[curBone.R_i]))
    IN  IF curBone.parent = -1
        THEN local
        ELSE Mat4Product(getD_i(h, bones, curBone.parent), local)

RECURSIVE getR_i(_, _, _)
getR_i(h, bones, bone) ==
    LET curBone == bones[bone]
    IN  IF curBone.parent = -1
        THEN h[curBone.R_i]
        ELSE QuatProduct(getR_i(h, bones, curBone.parent), h[curBone.R_i])

\* Variant of updateMesh that also stores the bone's world rotation in its
\* parent.
RECURSIVE updateMesh_RotatesParent(_, _, _, _, _)
updateMesh_RotatesParent(h, bones, bone, D_parent, rot_parent) ==
    LET boneInstance == bones[bone]
        fromChain == D_parent = null \/ rot_parent = null
        D_i == IF fromChain
               THEN getD_i(h, bones, bone)
               ELSE Mat4Product(D_parent[1],
                        Mat4Product(boneInstance.T_ij, QuatToMat4(h[boneInstance.R_i])))
        rotation_i == IF fromChain
                      THEN getR_i(h, bones, bone)
                      ELSE QuatProduct(rot_parent[1], h[boneInstance.R_i])
        kids == boneInstance.children
        afterChildren[i \in 0..Len(kids)] ==
            IF i = 0 THEN bones
            ELSE updateMesh_RotatesParent(h, afterChildren[i - 1], kids[i],
                                          Some(D_i), Some(rotation_i))
        done == afterChildren[Len(kids)]
        own == [done EXCEPT
                   ![bone].position = Mat4MultiplyPt3(D_i, Vec3Zero),
                   ![bone].endpoint = Mat4MultiplyPt3(D_i,
                       Vec3Difference(boneInstance.initEndpoint, boneInstance.initPosition)),
                   ![bone].rotation = rotation_i]
    IN  IF boneInstance.parent = -1
        THEN own
        ELSE [own EXCEPT ![boneInstance.parent].rotation = rotation_i]

\* Variant of updateMesh that transforms initEndpoint itself instead of the
\* bind-pose vector from the joint to the endpoint.
RECURSIVE updateMesh_WorldEndpoint(_, _, _, _, _)
updateMesh_WorldEndpoint(h, bones, bone, D_parent, rot_parent) ==
    LET boneInstance == bones[bone]
        fromChain == D_parent = null \/ rot_parent = null
        D_i == IF fromChain
               THEN getD_i(h, bones, bone)
               ELSE Mat4Product(D_parent[1],
                        Mat4Product(boneInstance.T_ij, QuatToMat4(h[boneInstance.R_i])))
        rotation_i == IF fromChain
                      THEN getR_i(h, bones, bone)
                      ELSE QuatProduct(rot_parent[1], h[boneInstance.R_i])
        kids == boneInstance.children
        afterChildren[i \in 0..Len(kids)] ==
            IF i = 0 THEN bones
            ELSE updateMesh_WorldEndpoint(h, afterChildren[i - 1], kids[i],
                                          Some(D_i), Some(rotation_i))
        done == afterChildren[Len(kids)]
    IN  [done EXCEPT
            ![bone].position = Mat4MultiplyPt3(D_i, Vec3Zero),
            ![bone].endpoint = Mat4MultiplyPt3(D_i, boneInstance.initEndpoint),
            ![bone].rotation = rotation_i]

\* Mesh.updateMesh: position, endpoint and rotation of `bone` and of its
\* descendants, from the parent's transform or, with null, from the whole
\* ancestor chain.
RECURSIVE updateMesh(_, _, _, _, _)
updateMesh(h, bones, bone, D_parent, rot_parent) ==
    LET boneInstance == bones[bone]
        fromChain == D_parent = null \/ rot_parent = null
        D_i == IF fromChain
               THEN getD_i(h, bones, bone)
               ELSE Mat4Product(D_parent[1],
                        Mat4Product(boneInstance.T_ij, QuatToMat4(h[boneInstance.R_i])))
        rotation_i == IF fromChain
                      THEN getR_i(h, bones, bone)
                      ELSE QuatProduct(rot_parent[1], h[boneInstance.R_i])
        kids == boneInstance.children
        afterChildren[i \in 0..Len(kids)] ==
            IF i = 0 THEN bones
            ELSE updateMesh(h, afterChildren[i - 1], kids[i], Some(D_i), Some(rotation_i))
        done == afterChildren[Len(kids)]
    IN  [done EXCEPT
            ![bone].position = Mat4MultiplyPt3(D_i, Vec3Zero),
            ![bone].endpoint = Mat4MultiplyPt3(D_i,
                Vec3Difference(boneInstance.initEndpoint, boneInstance.initPosition)),
            ![bone].rotation = rotation_i]

\* Mesh.calculateD_iAndTranslate: as updateMesh, for position and endpoint only.
RECURSIVE calculateD_iAndTranslate(_, _, _, _)
calculateD_iAndTranslate(h, bones, bone, D_parent) ==
    LET boneInstance == bones[bone]
        D_i == IF D_parent = null
               THEN getD_i(h, bones, bone)
               ELSE Mat4Product(D_parent[1],
                        Mat4Product(boneInstance.T_ij, QuatToMat4(h[boneInstance.R_i])))
        kids == boneInstance.children
        afterChildren[i \in 0..Len(kids)] ==
            IF i = 0 THEN bones
            ELSE calculateD_iAndTranslate(h, afterChildren[i - 1], kids[i], Some(D_i))
        done == afterChildren[Len(kids)]
    IN  [done EXCEPT
            ![bone].position = Mat4MultiplyPt3(D_i, Vec3Zero),
            ![bone].endpoint = Mat4MultiplyPt3(D_i,
                Vec3Difference(boneInstance.initEndpoint, boneInstance.initPosition))]

\* ------------------------------------------------------- the Quat objects
\* The R_i references of the live bones, then of each keyframe, in order.
RefsOf(bones, kfs) ==
    LET own == [i \in 1..Len(bones) |-> bones[i].R_i]
        upTo[k \in 0..Len(kfs)] ==
            IF k = 0 THEN own
            ELSE upTo[k - 1] \o [i \in 1..Len(kfs[k].bones) |-> kfs[k].bones[i].R_i]
    IN  upTo[Len(kfs)]

\* The objects still referenced, each once, in the order of first reference.
LiveRefs(refs) ==
    LET firsts[i \in 0..Len(refs)] ==
            IF i = 0 THEN <<>>
            ELSE IF \E j \in 1..(i - 1) : refs[j] = refs[i]
                 THEN firsts[i - 1]
                 ELSE Append(firsts[i - 1], refs[i])
    IN  firsts[Len(refs)]

\* Unreferenced objects are dropped and the rest renumbered: object identity
\* is kept, object names are not part of the program's state.
Collect(bones, kfs, h) ==
    LET live == LiveRefs(RefsOf(bones, kfs))
        name(r) == CHOOSE j \in 1..Len(live) : live[j] = r
        renamed(bs) == [i \in 1..Len(bs) |-> [bs[i] EXCEPT !.R_i = name(bs[i].R_i)]]
    IN  [bones |-> renamed(bones),
         keyFrames |-> [k \in 1..Len(kfs) |-> [bones |-> renamed(kfs[k].bones)]],
         quats |-> [j \in 1..Len(live) |-> h[live[j]]]]

\* The mesh list of a scene whose first mesh has these bones.
Meshes(bones) == << [bones |-> bones] >>

Store(meshesLoaded, file, bones, kfs, h) ==
    LET c == Collect(bones, kfs, h)
    IN  /\ scene' = [file |-> file,
                     meshes |-> IF meshesLoaded THEN Meshes(c.bones) ELSE <<>>]
        /\ keyFrames' = c.keyFrames
        /\ quats' = c.quats

Loaded == scene.meshes # <<>>

LiveBones == IF Loaded THEN scene.meshes[1].bones ELSE <<>>

\* The camera is outside the core: an event records the call that changed it
\* ("none", "new", "offset", "roll", "orbit", "zoom"), and its forward
\* direction is an input of the handler that reads it.
Event(op, err, cam) ==
    IF op \in observed
    THEN [op |-> op, err |-> err, cam |-> cam]
    ELSE [op |-> "other", err |-> FALSE, cam |-> "none"]

Handlers ==
    {"LoadDone", "StaleLoadDone", "Digit", "KeyR", "ArrowLeft", "ArrowRight",
     "CameraKey", "KeyK", "KeyP", "dragStart", "drag", "dragEnd", "draw"}

CameraForwards == {<<0, 0, 1>>, <<1, 0, 0>>}

\* ------------------------------------------------------------------- Init
\* initializeCanvas: the animation and its GUI are constructed, the draw loop
\* is started and the first scene is requested.
Observing(handlers) ==
    /\ observed = handlers
    /\ scene = [file |-> 1, meshes |-> <<>>]
    /\ loadedScene = 1
    /\ pending = 0
    /\ keyFrames = <<>>
    /\ selectedBone = NaN
    /\ dragging = FALSE
    /\ boneDragging = FALSE
    /\ time = 0
    /\ mode = "edit"
    /\ quats = <<>>
    /\ edits = 0
    /\ ev = [op |-> "init", err |-> FALSE, cam |-> "new"]

Init == Observing(Handlers)

\* ------------------------------------------------------------- GUI.reset
\* GUI.reset, without the keyframes (that it leaves alone).
GuiReset ==
    /\ dragging' = FALSE
    /\ boneDragging' = FALSE
    /\ selectedBone' = NaN
    /\ time' = 0
    /\ mode' = "edit"

GuiUnchanged == UNCHANGED <<dragging, boneDragging, selectedBone, time, mode>>

\* ---------------------------------------------------------- scene loading
\* SkinningAnimation.setScene: a new loader replaces the scene; a load still
\* in flight for the replaced scene will call initScene when it completes.
CanSetScene == Loaded \/ pending < MaxPending

SetScenePending == IF Loaded THEN pending ELSE pending + 1

\* The load of the current scene completes: the loader builds the mesh and
\* calls back initScene, which finds the mesh and resets the GUI.
LoadDone ==
    /\ ~Loaded
    /\ Store(TRUE, scene.file, MeshBones(LoaderBones(scene.file), Len(quats)), keyFrames,
             quats \o [i \in 1..Len(LoaderBones(scene.file)) |-> QuatIdentity])
    /\ GuiReset
    /\ UNCHANGED <<loadedScene, pending, edits, observed>>
    /\ ev' = Event("LoadDone", FALSE, "new")

\* The load of a superseded scene completes: initScene runs on the current
\* scene, and returns at once when that has no mesh yet.
StaleLoadDone ==
    /\ pending > 0
    /\ pending' = pending - 1
    /\ IF Loaded THEN GuiReset ELSE GuiUnchanged
    /\ UNCHANGED <<scene, loadedScene, keyFrames, quats, edits, observed>>
    /\ ev' = Event("StaleLoadDone", FALSE, IF Loaded THEN "new" ELSE "none")

\* onKeydown Digit1..Digit7
Digit(file) ==
    /\ CanSetScene
    /\ loadedScene' = file
    /\ pending' = SetScenePending
    /\ Store(FALSE, file, <<>>, keyFrames, quats)
    /\ GuiUnchanged
    /\ UNCHANGED <<edits, observed>>
    /\ ev' = Event("Digit", FALSE, "none")

\* Variant of KeyR that keeps the keyframes.
KeyR_KeepKeyFrames ==
    /\ CanSetScene
    /\ GuiReset
    /\ pending' = SetScenePending
    /\ Store(FALSE, loadedScene, <<>>, keyFrames, quats)
    /\ UNCHANGED <<loadedScene, edits, observed>>
    /\ ev' = Event("KeyR", FALSE, "new")

\* onKeydown KeyR: animation.reset() (gui.reset, setScene(loadedScene)), then
\* the keyframes are dropped.
KeyR ==
    /\ CanSetScene
    /\ GuiReset
    /\ pending' = SetScenePending
    /\ Store(FALSE, loadedScene, <<>>, <<>>, quats)
    /\ UNCHANGED <<loadedScene, edits, observed>>
    /\ ev' = Event("KeyR", FALSE, "new")

\* ------------------------------------------------------------- keyframes
\* new KeyFrame(bones)
KeyFrame(bones) == [bones |-> [i \in 1..Len(bones) |-> BoneFromBone(bones[i])]]

getNumKeyFrames == Len(keyFrames)

\* GUI.getMaxTime, in units of 1/TimeDen second
getMaxTime == (Len(keyFrames) - 1) * TimeDen

\* ------------------------------------------------------------ bone edits
\* bones[selectedBone] is an object: reading a field of it does not throw.
BoneSelected == Loaded /\ selectedBone # NaN /\ selectedBone \in 1..Len(LiveBones)

\* mesh.bones[selectedBone].rotateBone(axis, angle); mesh.updateMesh(selectedBone, null, null)
RotateSelected(axis, angle) ==
    LET rotated == rotateBone(quats, LiveBones, selectedBone, axis, angle)
        h == rotated.quats
    IN  Store(TRUE, scene.file, updateMesh(h, rotated.bones, selectedBone, null, null),
              keyFrames, h)

\* onKeydown ArrowLeft / ArrowRight: the rotation axis is read from
\* mesh.bones[selectedBone] before the selection is tested, which throws when
\* there is no mesh or no such bone.
Arrow(op, angle) ==
    IF ~BoneSelected
    THEN /\ UNCHANGED <<scene, keyFrames, quats, edits>>
         /\ ev' = Event(op, TRUE, "none")
    ELSE LET bone == LiveBones[selectedBone]
             rotationAxis == Vec3Difference(bone.initEndpoint, bone.initPosition)
         IN  IF selectedBone # NaN
             THEN /\ edits < MaxEdits
                  /\ edits' = edits + 1
                  /\ RotateSelected(rotationAxis, angle)
                  /\ ev' = Event(op, FALSE, "none")
             ELSE /\ UNCHANGED <<scene, keyFrames, quats, edits>>
                  /\ ev' = Event(op, FALSE, "roll")

ArrowLeft ==
    /\ Arrow("ArrowLeft", rotationSpeed)
    /\ UNCHANGED <<loadedScene, pending, selectedBone, dragging, boneDragging, time, mode,
                   observed>>

ArrowRight ==
    /\ Arrow("ArrowRight", -rotationSpeed)
    /\ UNCHANGED <<loadedScene, pending, selectedBone, dragging, boneDragging, time, mode,
                   observed>>

\* onKeydown KeyW, KeyA, KeyS, KeyD, ArrowUp, ArrowDown: camera.offset
CameraKey ==
    /\ UNCHANGED <<scene, loadedScene, pending, keyFrames, selectedBone, dragging,
                   boneDragging, time, mode, quats, edits, observed>>
    /\ ev' = Event("CameraKey", FALSE, "offset")

\* onKeydown KeyK
KeyK ==
    /\ IF mode = "edit"
       THEN IF Loaded
            THEN /\ Len(keyFrames) < MaxKeyFrames
                 /\ keyFrames' = Append(keyFrames, KeyFrame(LiveBones))
                 /\ ev' = Event("KeyK", FALSE, "none")
            ELSE /\ UNCHANGED keyFrames
                 /\ ev' = Event("KeyK", TRUE, "none")
       ELSE /\ UNCHANGED keyFrames
            /\ ev' = Event("KeyK", FALSE, "none")
    /\ GuiUnchanged
    /\ UNCHANGED <<scene, loadedScene, pending, quats, edits, observed>>

\* Variant of KeyP that enters playback with any number of keyframes.
KeyP_AnyCount ==
    /\ IF mode = "edit"
       THEN /\ mode' = "playback"
            /\ time' = 0
       ELSE /\ mode' = "edit"
            /\ UNCHANGED time
    /\ UNCHANGED <<scene, loadedScene, pending, keyFrames, selectedBone, dragging,
                   boneDragging, quats, edits, observed>>
    /\ ev' = Event("KeyP", FALSE, "none")

\* onKeydown KeyP
KeyP ==
    /\ IF mode = "edit" /\ getNumKeyFrames > 1
       THEN /\ mode' = "playback"
            /\ time' = 0
       ELSE IF mode = "playback"
            THEN /\ mode' = "edit"
                 /\ UNCHANGED time
            ELSE UNCHANGED <<mode, time>>
    /\ UNCHANGED <<scene, loadedScene, pending, keyFrames, selectedBone, dragging,
                   boneDragging, quats, edits, observed>>
    /\ ev' = Event("KeyP", FALSE, "none")

\* ---------------------------------------------------------------- pointer
\* Variant of dragStart that never enters bone-dragging.
dragStart_CameraOnly(inside) ==
    /\ IF inside
       THEN /\ UNCHANGED boneDragging
            /\ dragging' = TRUE
       ELSE UNCHANGED <<boneDragging, dragging>>
    /\ UNCHANGED <<scene, loadedScene, pending, keyFrames, selectedBone, time, mode,
                   quats, edits, observed>>
    /\ ev' = Event("dragStart", FALSE, "none")

\* GUI.dragStart; inside: the pointer is in the main panel (offsetY <= 600)
dragStart(inside) ==
    /\ IF inside
       THEN /\ boneDragging' = (IF selectedBone # NaN THEN TRUE ELSE boneDragging)
            /\ dragging' = TRUE
       ELSE UNCHANGED <<boneDragging, dragging>>
    /\ UNCHANGED <<scene, loadedScene, pending, keyFrames, selectedBone, time, mode,
                   quats, edits, observed>>
    /\ ev' = Event("dragStart", FALSE, "none")

\* Variant of dragEnd that leaves boneDragging set.
dragEnd_KeepsBoneDragging ==
    /\ dragging' = FALSE
    /\ UNCHANGED boneDragging
    /\ UNCHANGED <<scene, loadedScene, pending, keyFrames, selectedBone, time, mode,
                   quats, edits, observed>>
    /\ ev' = Event("dragEnd", FALSE, "none")

\* GUI.dragEnd
dragEnd ==
    /\ dragging' = FALSE
    /\ boneDragging' = FALSE
    /\ UNCHANGED <<scene, loadedScene, pending, keyFrames, selectedBone, time, mode,
                   quats, edits, observed>>
    /\ ev' = Event("dragEnd", FALSE, "none")

\* What intersectCilinder returns for a bone: NaN (no hit) or the distance
\* along the ray, which is negative for a hit behind the camera.
HitValues == {NaN, -1, 1, 2}

\* Number.MAX_SAFE_INTEGER: above every hit distance
MAX_SAFE_INTEGER == 2147483647

\* The highlight loop of GUI.drag: the index the loop ends with.
RECURSIVE HighlightIndex(_, _, _, _)
HighlightIndex(intersects, i, index, minT) ==
    IF i > Len(intersects) THEN index
    ELSE IF intersects[i] # NaN /\ intersects[i] <= minT
         THEN HighlightIndex(intersects, i + 1, i, intersects[i])
         ELSE HighlightIndex(intersects, i + 1, index, minT)

\* The picking branch of GUI.drag (not dragging), given each bone's hit.
Pick(intersects) ==
    LET bones == LiveBones
        index == HighlightIndex(intersects, 1, NaN, MAX_SAFE_INTEGER)
        cleared == [i \in 1..Len(bones) |-> [bones[i] EXCEPT !.isHighlight = FALSE]]
    IN  /\ selectedBone' = index
        /\ scene' = [scene EXCEPT !.meshes[1].bones =
                        IF index # NaN
                        THEN [cleared EXCEPT ![index].isHighlight = TRUE]
                        ELSE cleared]

\* GUI.drag while dragging, the pointer having moved (dx, dy not both 0)
DragMove(buttons, forward, angle) ==
    IF boneDragging /\ buttons = 1
    THEN IF ~BoneSelected
         THEN /\ UNCHANGED <<scene, keyFrames, quats, edits>>
              /\ ev' = Event("drag", TRUE, "none")
         ELSE /\ edits < MaxEdits
              /\ edits' = edits + 1
              /\ RotateSelected(forward, angle)
              /\ ev' = Event("drag", FALSE, "none")
    ELSE /\ UNCHANGED <<scene, keyFrames, quats, edits>>
         /\ ev' = Event("drag", FALSE, CASE buttons = 1 -> "orbit"
                                          [] buttons = 2 -> "zoom"
                                          [] OTHER -> "none")

DragAngles == {1}

Buttons == {0, 1, 2}

\* Variant of drag that runs the picking branch while dragging too, with a
\* ray that hits no bone.
drag_PicksWhileDragging(buttons, moved, forward, angle, intersects) ==
    /\ IF Loaded
       THEN /\ Pick(IF dragging THEN [i \in 1..Len(LiveBones) |-> NaN] ELSE intersects)
            /\ ev' = Event("drag", FALSE, "none")
       ELSE /\ UNCHANGED <<scene, selectedBone>>
            /\ ev' = Event("drag", TRUE, "none")
    /\ UNCHANGED <<keyFrames, quats, edits>>
    /\ UNCHANGED <<loadedScene, pending, dragging, boneDragging, time, mode, observed>>

\* GUI.drag: the mousemove handler
drag(buttons, moved, forward, angle, intersects) ==
    /\ IF dragging
       THEN /\ IF moved
               THEN DragMove(buttons, forward, angle)
               ELSE /\ UNCHANGED <<scene, keyFrames, quats, edits>>
                    /\ ev' = Event("drag", FALSE, "none")
            /\ UNCHANGED selectedBone
       ELSE /\ IF Loaded
               THEN /\ Pick(intersects)
                    /\ ev' = Event("drag", FALSE, "none")
               ELSE /\ UNCHANGED <<scene, selectedBone>>
                    /\ ev' = Event("drag", TRUE, "none")
            /\ UNCHANGED <<keyFrames, quats, edits>>
    /\ UNCHANGED <<loadedScene, pending, dragging, boneDragging, time, mode, observed>>

\* The inputs the handler reads: buttons, movement and angle while dragging,
\* the hits of the pointer's ray otherwise.
Drag ==
    IF dragging
    THEN \E buttons \in Buttons, moved \in BOOLEAN :
            \E forward \in CameraForwards, angle \in DragAngles :
                drag(buttons, moved, forward, angle, <<>>)
    ELSE \E intersects \in [1..Len(LiveBones) -> HitValues] :
            drag(0, FALSE, <<0, 0, 1>>, 0, intersects)

\* ------------------------------------------------------------------ draw
\* Variant of incrementTime that ends playback only past the last keyframe.
incrementTime_Past(dT) ==
    IF mode = "playback"
    THEN IF time + dT > getMaxTime
         THEN [time |-> 0, mode |-> "edit"]
         ELSE [time |-> time + dT, mode |-> mode]
    ELSE [time |-> time, mode |-> mode]

\* Variant of incrementTime that ends playback without wrapping the time.
incrementTime_NoWrap(dT) ==
    IF mode = "playback"
    THEN IF time + dT >= getMaxTime
         THEN [time |-> time + dT, mode |-> "edit"]
         ELSE [time |-> time + dT, mode |-> mode]
    ELSE [time |-> time, mode |-> mode]

\* GUI.incrementTime(dT): the time and the mode it leaves
incrementTime(dT) ==
    IF mode = "playback"
    THEN IF time + dT >= getMaxTime
         THEN [time |-> 0, mode |-> "edit"]
         ELSE [time |-> time + dT, mode |-> mode]
    ELSE [time |-> time, mode |-> mode]

\* The interpolation loop of draw reads keyframes i1 and i2 at bone i: the
\* bones it can set before a keyframe has no such bone.
RECURSIVE Interpolable(_, _, _, _)
Interpolable(bones, i1, i2, i) ==
    IF /\ i <= Len(bones)
       /\ i1 \in 1..Len(keyFrames) /\ i <= Len(keyFrames[i1].bones)
       /\ i2 \in 1..Len(keyFrames) /\ i <= Len(keyFrames[i2].bones)
    THEN Interpolable(bones, i1, i2, i + 1)
    ELSE i - 1

\* rotation and R_i of bones 1..n set by slerpShort; each R_i is a new object.
Interpolated(bones, i1, i2, num, n) ==
    [i \in 1..Len(bones) |->
        IF i <= n
        THEN [bones[i] EXCEPT
                !.rotation = QuatSlerpShort(keyFrames[i1].bones[i].rotation,
                                            keyFrames[i2].bones[i].rotation, num),
                !.R_i = Len(quats) + i]
        ELSE bones[i]]

InterpolatedQuats(i1, i2, num, n) ==
    quats \o [i \in 1..n |->
        QuatSlerpShort(quats[keyFrames[i1].bones[i].R_i],
                       quats[keyFrames[i2].bones[i].R_i], num)]

\* The interpolated quaternions are quaternions of the model.
InterpolationDefined(i1, i2, num, n) ==
    \A i \in 1..n :
        /\ SlerpDefined(keyFrames[i1].bones[i].rotation,
                        keyFrames[i2].bones[i].rotation, num)
        /\ SlerpDefined(quats[keyFrames[i1].bones[i].R_i],
                        quats[keyFrames[i2].bones[i].R_i], num)

\* calculateD_iAndTranslate(i, null) for every root bone, in index order
Propagated(h, bones) ==
    LET upTo[i \in 0..Len(bones)] ==
            IF i = 0 THEN bones
            ELSE IF upTo[i - 1][i].parent = -1
                 THEN calculateD_iAndTranslate(h, upTo[i - 1], i, null)
                 ELSE upTo[i - 1]
    IN  upTo[Len(bones)]

\* SkinningAnimation.draw, dT units of time after the previous frame
draw(dT) ==
    /\ time' = incrementTime(dT).time
    /\ mode' = incrementTime(dT).mode
    /\ IF incrementTime(dT).mode = "playback"
       THEN IF ~Loaded
            THEN /\ UNCHANGED <<scene, keyFrames, quats>>
                 /\ ev' = Event("draw", TRUE, "none")
            ELSE LET keyFrame1Index == (incrementTime(dT).time \div TimeDen) + 1
                     keyFrame2Index == keyFrame1Index + 1
                     num == incrementTime(dT).time - (keyFrame1Index - 1) * TimeDen
                     bones == LiveBones
                     n == Interpolable(bones, keyFrame1Index, keyFrame2Index, 1)
                     h == InterpolatedQuats(keyFrame1Index, keyFrame2Index, num, n)
                     set == Interpolated(bones, keyFrame1Index, keyFrame2Index, num, n)
                 IN  /\ InterpolationDefined(keyFrame1Index, keyFrame2Index, num, n)
                     /\ IF n < Len(bones)
                        THEN /\ Store(TRUE, scene.file, set, keyFrames, h)
                             /\ ev' = Event("draw", TRUE, "none")
                        ELSE /\ Store(TRUE, scene.file, Propagated(h, set), keyFrames, h)
                             /\ ev' = Event("draw", FALSE, "none")
       ELSE /\ UNCHANGED <<scene, keyFrames, quats>>
            /\ ev' = Event("draw", FALSE, "none")
    /\ UNCHANGED <<loadedScene, pending, selectedBone, dragging, boneDragging, edits,
                   observed>>

Draw == \E dT \in 0..MaxDT : draw(dT)

\* ------------------------------------------------------------------- Next
Next ==
    \/ LoadDone
    \/ StaleLoadDone
    \/ \E file \in Scenes : Digit(file)
    \/ KeyR
    \/ ArrowLeft
    \/ ArrowRight
    \/ CameraKey
    \/ KeyK
    \/ KeyP
    \/ \E inside \in BOOLEAN : dragStart(inside)
    \/ Drag
    \/ dragEnd
    \/ Draw

Spec == Init /\ [][Next]_vars

\* The same program, recording the events of some handlers only.
SpecPlayback == Observing({"KeyP", "draw"}) /\ [][Next]_vars

SpecEditing == Observing({"ArrowLeft", "ArrowRight", "drag", "KeyK"}) /\ [][Next]_vars

SpecLoading == Observing({"Digit", "LoadDone", "StaleLoadDone", "KeyR"}) /\ [][Next]_vars

SpecPointer == Observing({"dragStart", "dragEnd"}) /\ [][Next]_vars

SpecPicking == Observing({"dragStart", "drag", "dragEnd"}) /\ [][Next]_vars

\* A state the program is in after: the first load completes; KeyK; bone 1
\* is dragged half a turn about the camera's forward z; bone 2 is dragged
\* half a turn about the camera's forward x; KeyK; KeyP.  Both keyframes and
\* the live pose are built by the operations that build them in the program.
PosedPlayback ==
    LET bind == MeshBones(LoaderBones(1), 0)
        h0 == [i \in 1..Len(bind) |-> QuatIdentity]
        first == KeyFrame(bind)
        r1 == rotateBone(h0, bind, 1, <<0, 0, 1>>, 2)
        b1 == updateMesh(r1.quats, r1.bones, 1, null, null)
        r2 == rotateBone(r1.quats, b1, 2, <<1, 0, 0>>, 2)
        b2 == updateMesh(r2.quats, r2.bones, 2, null, null)
        second == KeyFrame(b2)
        c == Collect(b2, <<first, second>>, r2.quats)
    IN  /\ observed = {"KeyP", "draw"}
        /\ scene = [file |-> 1, meshes |-> Meshes(c.bones)]
        /\ loadedScene = 1
        /\ pending = 0
        /\ keyFrames = c.keyFrames
        /\ selectedBone = NaN
        /\ dragging = FALSE
        /\ boneDragging = FALSE
        /\ time = 0
        /\ mode = "playback"
        /\ quats = c.quats
        /\ edits = 2
        /\ ev = [op |-> "KeyP", err |-> FALSE, cam |-> "none"]

SpecPosed == PosedPlayback /\ [][Next]_vars

\* A frame drawn a positive time after the previous one.
Tick == \E late \in 0..(MaxDT - 1) : draw(MaxDT - late)

\* The draw loop keeps scheduling frames (requestAnimationFrame), and the
\* clock advances between them.
FairPlayback == SpecPlayback /\ WF_vars(Tick)

\* ================================================================ properties
\* The local rotations of the live bones, as values.
LocalRotations(bones, h) == [i \in 1..Len(bones) |-> h[bones[i].R_i]]

\* What the keyframes store, with every R_i read through its reference.
StoredValues(kfs, h) ==
    [k \in 1..Len(kfs) |->
        [i \in 1..Len(kfs[k].bones) |->
            [kfs[k].bones[i] EXCEPT !.R_i = h[kfs[k].bones[i].R_i]]]]

\* C1: KeyP in Edit mode with fewer than 2 keyframes is rejected: the mode
\* stays Edit and the cursor (time) is unchanged.
C1_TogglePlaybackRejected ==
    [][(ev'.op = "KeyP" /\ mode = "edit" /\ getNumKeyFrames < 2)
            => (mode' = "edit" /\ time' = time)]_vars

\* KeyP was pressed in Edit mode with one keyframe stored.
C1_Witness ==
    ev.op = "KeyP" /\ mode = "edit" /\ getNumKeyFrames = 1

\* C2: after a tick that leaves the mode Playback, i = floor(time) and
\* i2 = i + 1 satisfy 0 <= i < i2 <= keyframeCount - 1.
C2_InterpolationIndicesValid ==
    (ev.op = "draw" /\ mode = "playback") =>
        LET i == time \div TimeDen
            i2 == i + 1
        IN  0 <= i /\ i < i2 /\ i2 <= getNumKeyFrames - 1

\* A tick advanced the cursor and interpolated between two keyframes.
C2_Witness ==
    ev.op = "draw" /\ ~ev.err /\ mode = "playback" /\ time > 0

\* C3: no step changes a value stored in a keyframe that it keeps: bone by
\* bone the stored local rotation, position, endpoint, rotation (and every
\* other field) are after the step what they were before it.
C3_KeyFramesImmutable ==
    [][\A k \in 1..Len(keyFrames) :
            k <= Len(keyFrames')
                => StoredValues(keyFrames', quats')[k] = StoredValues(keyFrames, quats)[k]]_vars

\* A bone was rotated after a keyframe captured it: the stored local rotation
\* is the one at capture, the live one is the rotated one.
C3_Witness ==
    /\ edits > 0
    /\ \E k \in 1..Len(keyFrames) :
            /\ Len(keyFrames[k].bones) = Len(LiveBones)
            /\ \E i \in 1..Len(LiveBones) :
                    /\ quats[keyFrames[k].bones[i].R_i] = QuatIdentity
                    /\ quats[LiveBones[i].R_i] # QuatIdentity

\* C4: from any Playback state, ticks with positive elapsed time lead to Edit
\* mode with the cursor at 0, reached by a tick, unless a key press or a scene
\* load ends the playback first; and only KeyP takes Edit mode to Playback.
C4_PlaybackEnds ==
    /\ (mode = "playback")
            ~> (mode = "edit" /\ (ev.op = "draw" => time = 0))
    /\ [][(mode = "playback" /\ mode' = "edit" /\ ev'.op = "draw") => time' = 0]_vars
    /\ [][(mode = "edit" /\ mode' = "playback") => ev'.op = "KeyP"]_vars

\* A tick ended the playback: two keyframes, Edit mode, cursor 0.
C4_Witness ==
    ev.op = "draw" /\ mode = "edit" /\ time = 0 /\ getNumKeyFrames >= 2

\* C5: every step that changes the mode leaves the cursor (time) at 0.
C5_CursorResetOnModeChange ==
    [][mode' # mode => time' = 0]_vars

\* C6: when the load of a scene completes, the keyframe sequence is empty.
C6_LoadDiscardsKeyFrames ==
    ev.op = "LoadDone" => keyFrames = <<>>

\* C7: with a mesh and no bone selected, ArrowLeft, ArrowRight and a
\* pointer-move during a drag end without error and leave the skeleton as
\* it was.
C7_NoSelectionNoOp ==
    [][(/\ Loaded
        /\ selectedBone = NaN
        /\ \/ ev'.op \in {"ArrowLeft", "ArrowRight"}
           \/ ev'.op = "drag" /\ dragging)
            => (~ev'.err /\ UNCHANGED <<scene, quats>>)]_vars

\* C8: while the scene has no mesh, pointer-move, ArrowLeft, ArrowRight and
\* KeyK end without error and change neither skeleton, selection nor
\* keyframes.
C8_NoMeshNoOp ==
    [][(~Loaded /\ ev'.op \in {"drag", "ArrowLeft", "ArrowRight", "KeyK"})
            => (~ev'.err /\ UNCHANGED <<scene, keyFrames, quats, selectedBone>>)]_vars

\* C9: in Playback mode ArrowLeft, ArrowRight and a pointer-move leave every
\* bone's local rotation unchanged.
C9_PlaybackIgnoresEdits ==
    [][(mode = "playback" /\ Loaded /\ ev'.op \in {"ArrowLeft", "ArrowRight", "drag"})
            => LocalRotations(LiveBones', quats') = LocalRotations(LiveBones, quats)]_vars

\* C10: KeyK appends exactly one keyframe in Edit mode and leaves the
\* keyframe sequence unchanged in Playback mode.
C10_CaptureKey ==
    [][ev'.op = "KeyK"
            => IF mode = "edit"
               THEN /\ Len(keyFrames') = Len(keyFrames) + 1
                    /\ SubSeq(keyFrames', 1, Len(keyFrames)) = keyFrames
               ELSE keyFrames' = keyFrames]_vars

\* Every live bone is in bind pose: identity local rotation, position and
\* endpoint at their bind-pose values.
BindPose ==
    \A i \in 1..Len(LiveBones) :
        /\ quats[LiveBones[i].R_i] = QuatIdentity
        /\ LiveBones[i].position = LiveBones[i].initPosition
        /\ LiveBones[i].endpoint = LiveBones[i].initEndpoint

\* C11: right after KeyR the keyframe sequence is empty, the mode is Edit,
\* the cursor is 0, no bone is selected and nothing is dragged; right after
\* a load completes every bone is in bind pose.
C11_ResetKey ==
    /\ ev.op = "KeyR"
            => /\ keyFrames = <<>>
               /\ mode = "edit"
               /\ time = 0
               /\ selectedBone = NaN
               /\ ~dragging
               /\ ~boneDragging
    /\ ev.op = "LoadDone" => (Loaded /\ BindPose)

\* KeyR was pressed after a bone had been rotated.
C11_Witness ==
    ev.op = "KeyR" /\ edits > 0

\* C12: a live bone is highlighted if and only if its index is the selected
\* bone index; so at most one bone is highlighted, and none when no bone is
\* selected.
C12_HighlightIsSelection ==
    \A i \in 1..Len(LiveBones) : LiveBones[i].isHighlight <=> (selectedBone = i)

\* The bones whose hit distance is valid and positive, and among them the
\* ones at the smallest distance.
PositiveHits(intersects) ==
    {i \in DOMAIN intersects : intersects[i] # NaN /\ intersects[i] > 0}

NearestHits(intersects) ==
    {i \in PositiveHits(intersects) :
        \A j \in PositiveHits(intersects) : intersects[i] <= intersects[j]}

\* C13: a picking pass selects a bone at the smallest valid positive hit
\* distance and highlights that bone only; with no positive hit it selects
\* and highlights none.  Stated for every array of hits that the pass can
\* have read.
C13_PickNearestPositive ==
    [][(Loaded /\ ~dragging /\ ev'.op = "drag")
            => \A intersects \in [1..Len(LiveBones) -> HitValues] :
                (selectedBone' = HighlightIndex(intersects, 1, NaN, MAX_SAFE_INTEGER))
                    => /\ IF NearestHits(intersects) = {}
                          THEN selectedBone' = NaN
                          ELSE selectedBone' \in NearestHits(intersects)
                       /\ \A i \in 1..Len(LiveBones') :
                            LiveBones'[i].isHighlight <=> (selectedBone' = i)]_vars

\* C14: a pointer-down inside the main panel starts a drag, a bone drag if
\* and only if a bone is selected; a pointer-up clears both the dragging and
\* the bone-dragging flag.
C14_DragPhases ==
    /\ [][dragStart(TRUE) => (dragging' /\ (boneDragging' <=> selectedBone # NaN))]_vars
    /\ [][dragEnd => (~dragging' /\ ~boneDragging')]_vars

\* Idle, then a pointer-down on a selected bone: bone-dragging.
C14_Witness ==
    ev.op = "dragStart" /\ dragging /\ boneDragging /\ selectedBone # NaN

\* Position, endpoint and world rotation of every live bone are the ones
\* composed from bind offsets and local rotations along its ancestor chain.
DerivedFromChain ==
    \A i \in 1..Len(LiveBones) :
        LET bone == LiveBones[i]
            D_i == getD_i(quats, LiveBones, i)
        IN  /\ bone.position = Mat4MultiplyPt3(D_i, Vec3Zero)
            /\ bone.endpoint =
                    Mat4MultiplyPt3(D_i, Vec3Difference(bone.initEndpoint, bone.initPosition))
            /\ bone.rotation = getR_i(quats, LiveBones, i)

\* C15: after every edit and after every playback tick, the cached position,
\* endpoint and world rotation of every bone are the ones composed along its
\* ancestor chain.
C15_DerivedStateIsComposition ==
    (Loaded /\ ~ev.err /\ ev.op \in {"ArrowLeft", "ArrowRight", "drag", "draw"})
        => DerivedFromChain

\* The slerp midpoint of the local rotations of the two keyframes.
MidpointRotations ==
    [i \in 1..Len(keyFrames[1].bones) |->
        QuatSlerpShort(quats[keyFrames[1].bones[i].R_i],
                       quats[keyFrames[2].bones[i].R_i], TimeDen \div 2)]

\* C16: with exactly two keyframes, a playback tick evaluated at cursor 0 sets
\* the local rotations to keyframe 0's, one evaluated at cursor 1 (the maximum)
\* to keyframe 1's, and one evaluated at cursor 0.5 to their slerp midpoint.
C16_EndpointExactness ==
    [][\A dT \in 0..MaxDT :
        (/\ draw(dT)
         /\ mode = "playback" /\ Loaded /\ Len(keyFrames) = 2
         /\ \A k \in 1..2 : Len(keyFrames[k].bones) = Len(LiveBones))
            => /\ (time + dT = 0) =>
                    LocalRotations(LiveBones', quats') = LocalRotations(keyFrames[1].bones, quats)
               /\ (time + dT = TimeDen) =>
                    LocalRotations(LiveBones', quats') = LocalRotations(keyFrames[2].bones, quats)
               /\ (2 * (time + dT) = TimeDen) =>
                    LocalRotations(LiveBones', quats') = MidpointRotations]_vars

\* C17: the bind-pose data never changes: every live bone's initPosition and
\* initEndpoint are the loader's bind-pose coordinates, its T_ij is the
\* translation by its bind position minus its parent's (its own for a root),
\* and its children list is the loader's.
C17_BindPoseImmutable ==
    Loaded =>
        /\ Len(LiveBones) = Len(LoaderBones(scene.file))
        /\ \A i \in 1..Len(LiveBones) :
            LET bone == LiveBones[i]
                loaded == LoaderBones(scene.file)
                offset == IF loaded[i].parent = -1
                          THEN loaded[i].position
                          ELSE Vec3Difference(loaded[i].position,
                                              loaded[loaded[i].parent].position)
            IN  /\ bone.initPosition = loaded[i].position
                /\ bone.initEndpoint = loaded[i].endpoint
                /\ bone.T_ij = [r |-> Mat3Identity, t |-> offset]
                /\ bone.children = loaded[i].children
                /\ bone.parent = loaded[i].parent

C17_Witness ==
    /\ Loaded /\ ~ev.err /\ ev.op \in {"ArrowLeft", "ArrowRight", "drag"}
    /\ \E i \in 1..Len(LiveBones) :
        /\ LiveBones[i].parent # -1
        /\ quats[LiveBones[LiveBones[i].parent].R_i] # QuatIdentity
        /\ LiveBones[i].position # LiveBones[i].initPosition

\* C18: every bone is as long as in the bind pose: the distance between its
\* position and its endpoint is the distance between its initPosition and
\* its initEndpoint, after any rotations of the bone or of its ancestors.
C18_BoneLengthPreserved ==
    \A i \in 1..Len(LiveBones) :
        Vec3SquaredLength(Vec3Difference(LiveBones[i].endpoint, LiveBones[i].position))
            = Vec3SquaredLength(Vec3Difference(LiveBones[i].initEndpoint,
                                               LiveBones[i].initPosition))

C18_Witness ==
    /\ Loaded /\ ~ev.err /\ ev.op \in {"ArrowLeft", "ArrowRight", "drag"}
    /\ \E i \in 1..Len(LiveBones) :
        /\ quats[LiveBones[i].R_i] # QuatIdentity
        /\ LiveBones[i].endpoint # LiveBones[i].initEndpoint

\* C19: in every reachable state the playback cursor (time) lies in the range
\* from 0 to the number of keyframes minus one.
C19_CursorInRange == 0 <= time /\ time <= getMaxTime

\* C19, amended: the cursor is 0, or it lies strictly between 0 and the
\* number of keyframes minus one.
C19_CursorInRangeOrZero == time = 0 \/ (0 < time /\ time < getMaxTime)

C19_Witness == ev.op = "draw" /\ ~ev.err /\ mode = "playback" /\ time > 0

\* C20: a keyframe shares no mutable object with the live skeleton or with
\* another keyframe: the Quat object that is a keyframe bone's R_i is not the
\* R_i of a live bone nor of a bone of another keyframe.  (Position, endpoint
\* and rotation are copied by the Bone constructor and held by value here.)
C20_NoSharedObjects ==
    \A k \in 1..Len(keyFrames) : \A i \in 1..Len(keyFrames[k].bones) :
        /\ \A j \in 1..Len(LiveBones) : keyFrames[k].bones[i].R_i # LiveBones[j].R_i
        /\ \A l \in 1..Len(keyFrames) : \A j \in 1..Len(keyFrames[l].bones) :
                l # k => keyFrames[k].bones[i].R_i # keyFrames[l].bones[j].R_i

\* Bone i is bone b or one of its descendants.
RECURSIVE InSubtree(_, _, _)
InSubtree(bones, b, i) ==
    \/ i = b
    \/ /\ bones[i].parent # -1
       /\ InSubtree(bones, b, bones[i].parent)

\* C21: the propagation an edit starts at the edited bone (updateMesh(b,
\* null, null)) changes only position, endpoint and rotation of b and of b's
\* descendants: every other bone keeps its derived fields, every bone but the
\* rotated one keeps its local rotation, and no other field changes.
C21_PropagateFrame ==
    [][(/\ ev'.op \in {"ArrowLeft", "ArrowRight", "drag"}
        /\ ~ev'.err /\ edits' = edits + 1)
            => /\ Len(LiveBones') = Len(LiveBones)
               /\ \A i \in 1..Len(LiveBones) :
                    /\ ~InSubtree(LiveBones, selectedBone, i) =>
                            /\ LiveBones'[i].position = LiveBones[i].position
                            /\ LiveBones'[i].endpoint = LiveBones[i].endpoint
                            /\ LiveBones'[i].rotation = LiveBones[i].rotation
                    /\ i # selectedBone =>
                            quats'[LiveBones'[i].R_i] = quats[LiveBones[i].R_i]
                    /\ [LiveBones'[i] EXCEPT !.position = <<>>, !.endpoint = <<>>,
                                              !.rotation = <<>>, !.R_i = 0]
                        = [LiveBones[i] EXCEPT !.position = <<>>, !.endpoint = <<>>,
                                               !.rotation = <<>>, !.R_i = 0]]_vars

C21_Witness ==
    /\ Loaded /\ ~ev.err /\ ev.op \in {"ArrowLeft", "ArrowRight", "drag"}
    /\ selectedBone # NaN /\ selectedBone \in 1..Len(LiveBones)
    /\ LiveBones[selectedBone].parent # -1
    /\ quats[LiveBones[selectedBone].R_i] # QuatIdentity
    /\ LiveBones[selectedBone].rotation # QuatIdentity

\* A step leaves the selection and every highlight flag as they are.
SelectionUnchanged ==
    /\ selectedBone' = selectedBone
    /\ Len(LiveBones') = Len(LiveBones)
    /\ \A i \in 1..Len(LiveBones) : LiveBones'[i].isHighlight = LiveBones[i].isHighlight

\* C22: a pointer-move event that follows a pointer-down, before the
\* pointer-up, leaves the selected bone and every highlight flag unchanged.
C22_NoPickingAfterPointerDown ==
    [][(ev.op = "dragStart" /\ Drag) => SelectionUnchanged]_vars

\* C22, amended: a pointer-move event while the dragging flag is set leaves
\* the selected bone and every highlight flag unchanged.
C22_NoPickingWhileDragging ==
    [][(dragging /\ Drag) => SelectionUnchanged]_vars

C22_Witness ==
    /\ ev.op = "drag" /\ ~ev.err /\ dragging /\ boneDragging
    /\ Loaded /\ selectedBone # NaN /\ edits > 0

\* An arrow key pressed with bone `sel` selected: rotateBone about the
\* bind-pose axis by `angle`, then updateMesh(sel, null, null).
ArrowPressed(h, bones, sel, angle) ==
    LET rotationAxis == Vec3Difference(bones[sel].initEndpoint, bones[sel].initPosition)
        rotated == rotateBone(h, bones, sel, rotationAxis, angle)
    IN  [quats |-> rotated.quats,
         bones |-> updateMesh(rotated.quats, rotated.bones, sel, null, null)]

\* The bones with each R_i read through its reference.
BoneValues(bones, h) == [i \in 1..Len(bones) |-> [bones[i] EXCEPT !.R_i = h[bones[i].R_i]]]

\* ArrowLeft then ArrowRight (first = rotationSpeed), or the reverse, with
\* the selected bone: the bones they leave, as values.
AfterBothArrows(first) ==
    LET one == ArrowPressed(quats, LiveBones, selectedBone, first)
        two == ArrowPressed(one.quats, one.bones, selectedBone, -first)
    IN  BoneValues(two.bones, two.quats)

\* C23: with a bone selected, ArrowLeft then ArrowRight (or the reverse)
\* restores the local rotation and the derived state of the bone and of its
\* descendants to their prior values.
C23_ArrowsAreInverse ==
    BoneSelected =>
        \A first \in {rotationSpeed, -rotationSpeed} :
            AfterBothArrows(first) = BoneValues(LiveBones, quats)

\* C24: in every reachable state, playback mode implies that at least two
\* keyframes are stored.
C24_PlaybackHasTwoKeyFrames == mode = "playback" => getNumKeyFrames >= 2

C24_Witness == ev.op = "KeyP" /\ mode = "playback" /\ getNumKeyFrames = 2

\* C25: in every reachable state, every stored keyframe has exactly one bone
\* entry per bone of the loaded skeleton.
C25_KeyFramesMatchSkeleton ==
    Loaded => \A k \in 1..Len(keyFrames) : Len(keyFrames[k].bones) = Len(LiveBones)

\* C26: in every reachable state, the window between setScene and the end of
\* the load included, a selected bone index other than NaN is an index into
\* the bones of the current scene's first mesh.
C26_SelectionIsValidIndex ==
    selectedBone # NaN => (Loaded /\ selectedBone \in 1..Len(LiveBones))

\* C27: in every reachable state, playback mode implies that the current
\* scene has a loaded mesh.
C27_PlaybackHasMesh == mode = "playback" => Loaded

\* C28: the completion callback of a load that a later setScene replaced,
\* firing after the latest scene has been initialised, changes neither the
\* mode, the cursor, the selection nor the drag flags.
C28_StaleLoadLeavesGui ==
    [][(StaleLoadDone /\ Loaded)
            => UNCHANGED <<mode, time, selectedBone, dragging, boneDragging>>]_vars

\* C29: in every reachable state, boneDragging implies dragging and a
\* selected bone.
C29_BoneDraggingImpliesDragging ==
    boneDragging => (dragging /\ selectedBone # NaN)

C29_Witness ==
    /\ ev.op = "dragStart" /\ boneDragging
    /\ Loaded /\ selectedBone \in 1..Len(LiveBones) /\ LiveBones[selectedBone].isHighlight

\* C30: while bone-dragging no pointer-move event, whatever its pressed
\* buttons, changes the camera, and while camera-dragging no pointer-move
\* event changes a bone's local rotation.
C30_DragModesExclusive ==
    /\ [][(ev'.op = "drag" /\ dragging /\ boneDragging) => ev'.cam = "none"]_vars
    /\ [][(ev'.op = "drag" /\ dragging /\ ~boneDragging)
            => LocalRotations(LiveBones', quats') = LocalRotations(LiveBones, quats)]_vars

====
